---- MODULE Spec2Model ----
(***************************************************************************)
(* Model of streamlit_layout_optimizer.py: the cut-list parser, the sheet  *)
(* packing run (run_layout_optimizer, which drives the rectpack packer     *)
(* created by newPacker(rotation=True)) and the CSV summary.               *)
(*                                                                         *)
(* Numbers.  The program computes with Python floats and Python ints.  A   *)
(* float is modelled as the IEEE 754 double it is, with the rounding of    *)
(* every operation, and an int without a bound.  The packer works on      *)
(* plain integers, which hold every footprint and sheet drawn for it       *)
(* below.  An operation here takes its naturals a few binary digits at     *)
(* a time, which covers the doubles over their whole range but decimal     *)
(* literals only up to a few dozen digits and powers of ten.               *)
(***************************************************************************)
EXTENDS Integers, Sequences, FiniteSets, TLC

VARIABLES pc, error, ui, text, lineNo, pieces, warnings, sheet_length, sheet_width, kerf, cuts,
          bin_width, bin_height, avail_rect, i, sorted_rect, k,
          open_bins, empty_bins, rows, foot, report

vars == <<pc, error, ui, text, lineNo, pieces, warnings, sheet_length, sheet_width, kerf, cuts,
          bin_width, bin_height, avail_rect, i, sorted_rect, k,
          open_bins, empty_bins, rows, foot, report>>

----------------------------------------------------------------------------
(* Bounds of the model *)
MaxCuts == 3
MaxLines == 2
LimitExtra == 1

(* Program constants *)
scale == 100
NumBins == 100
Places == 4
Hundredths == 100

----------------------------------------------------------------------------
(* Python integers.  An int of the program has no bound, so a natural is   *)
(* held as its digits in base Base, the lowest first and the highest not   *)
(* zero (<<>> is 0), and an int as a sign and a natural.                   *)

Base == 2^15

BaseBits == 15

Abs(a) == IF a < 0 THEN -a ELSE a

MinOf(a, b) == IF a <= b THEN a ELSE b

MaxInt(a, b) == IF a >= b THEN a ELSE b

(* drop the zero digits at the high end *)
RECURSIVE Trim(_)
Trim(a) ==
    IF a # <<>> /\ a[Len(a)] = 0 THEN Trim(SubSeq(a, 1, Len(a) - 1)) ELSE a

(* the natural of a small number n >= 0, and back *)
RECURSIVE NatOf(_)
NatOf(n) == IF n = 0 THEN <<>> ELSE <<n % Base>> \o NatOf(n \div Base)

RECURSIVE SmallOf(_)
SmallOf(a) == IF a = <<>> THEN 0 ELSE a[1] + Base * SmallOf(Tail(a))

Low(a) == IF a = <<>> THEN 0 ELSE a[1]

High(a) == IF a = <<>> THEN <<>> ELSE Tail(a)

(* a + b + c, c a carry *)
RECURSIVE NatAddC(_, _, _)
NatAddC(a, b, c) ==
    IF a = <<>> /\ b = <<>> THEN NatOf(c)
    ELSE <<(Low(a) + Low(b) + c) % Base>>
             \o NatAddC(High(a), High(b), (Low(a) + Low(b) + c) \div Base)

NatAdd(a, b) == NatAddC(a, b, 0)

(* a - b - c for a >= b + c, c a borrow; the high zeros are left in *)
RECURSIVE NatSubC(_, _, _)
NatSubC(a, b, c) ==
    IF a = <<>> THEN <<>>
    ELSE <<(Low(a) - Low(b) - c) % Base>>
             \o NatSubC(High(a), High(b),
                        IF Low(a) - Low(b) - c < 0 THEN 1 ELSE 0)

NatSub(a, b) == Trim(NatSubC(a, b, 0))

(* -1, 0 or 1 as a < b, a = b or a > b; digits compared from the highest *)
RECURSIVE NatCmpAt(_, _, _)
NatCmpAt(a, b, j) ==
    IF j = 0 THEN 0
    ELSE IF a[j] < b[j] THEN -1
    ELSE IF a[j] > b[j] THEN 1
    ELSE NatCmpAt(a, b, j - 1)

NatCmp(a, b) ==
    IF Len(a) < Len(b) THEN -1
    ELSE IF Len(a) > Len(b) THEN 1
    ELSE NatCmpAt(a, b, Len(a))

(* a * n + c for a small n, 0 < n <= Base *)
RECURSIVE NatMulC(_, _, _)
NatMulC(a, n, c) ==
    IF a = <<>> THEN NatOf(c)
    ELSE <<(a[1] * n + c) % Base>> \o NatMulC(Tail(a), n, (a[1] * n + c) \div Base)

NatMul(a, n) == NatMulC(a, n, 0)

(* a * 10^n *)
RECURSIVE NatMulPow10(_, _)
NatMulPow10(a, n) ==
    IF n = 0 \/ a = <<>> THEN a ELSE NatMulPow10(NatMul(a, 10), n - 1)

(* the quotient digits, highest first in the recursion, and the remainder *)
(* of a by a small n, 0 < n <= Base, as <<quotient, remainder>>            *)
DivStep(hi, low, n) ==
    <<<<(hi[2] * Base + low) \div n>> \o hi[1], (hi[2] * Base + low) % n>>

RECURSIVE NatDivSmall(_, _)
NatDivSmall(a, n) ==
    IF a = <<>> THEN <<<<>>, 0>>
    ELSE DivStep(NatDivSmall(Tail(a), n), a[1], n)

(* the number of binary digits of a small number, and of a natural *)
RECURSIVE SmallBits(_)
SmallBits(n) == IF n = 0 THEN 0 ELSE 1 + SmallBits(n \div 2)

NatBits(a) ==
    IF a = <<>> THEN 0 ELSE BaseBits * (Len(a) - 1) + SmallBits(a[Len(a)])

(* binary digit j of a, the lowest being digit 0 *)
NatBit(a, j) ==
    IF j \div BaseBits >= Len(a) THEN 0
    ELSE (a[(j \div BaseBits) + 1] \div 2^(j % BaseBits)) % 2

Zeros(n) == [j \in 1..n |-> 0]

(* a * 2^n *)
NatShl(a, n) ==
    IF a = <<>> THEN <<>>
    ELSE Zeros(n \div BaseBits) \o NatMul(a, 2^(n % BaseBits))

(* a \div 2^n *)
NatShr(a, n) ==
    IF n \div BaseBits >= Len(a) THEN <<>>
    ELSE Trim(NatDivSmall(SubSeq(a, (n \div BaseBits) + 1, Len(a)),
                          2^(n % BaseBits))[1])

(* whether the n lowest binary digits of a are all zero *)
NatLowZero(a, n) == NatShl(NatShr(a, n), n) = a

(* The quotient and the remainder of a by any natural b > 0, by long       *)
(* division in binary: qr is <<quotient, remainder>> of the digits of a    *)
(* above digit j, and a step takes digit j in.                             *)
LongStep(q2, r2, b) ==
    IF NatCmp(r2, b) >= 0 THEN <<NatAddC(q2, <<>>, 1), NatSub(r2, b)>>
    ELSE <<q2, r2>>

LongBit(a, b, j, qr) ==
    IF j < 0 THEN qr
    ELSE LongStep(NatMul(qr[1], 2),
                  NatAddC(NatMul(qr[2], 2), <<>>, NatBit(a, j)), b)

(* eight steps at a time *)
RECURSIVE NatLongDiv(_, _, _, _)
NatLongDiv(a, b, j, qr) ==
    IF j < 0 \/ Len(qr) # 2 THEN qr
    ELSE NatLongDiv(a, b, j - 8,
             LongBit(a, b, j - 7, LongBit(a, b, j - 6, LongBit(a, b, j - 5,
             LongBit(a, b, j - 4, LongBit(a, b, j - 3, LongBit(a, b, j - 2,
             LongBit(a, b, j - 1, LongBit(a, b, j, qr)))))))))

(* the digits of a above place n are less than b when n is as below, so   *)
(* the division starts from them                                           *)
LongFrom(a, b, n) ==
    IF n <= 0 THEN <<<<>>, a>>
    ELSE NatLongDiv(a, b, n - 1, <<<<>>, NatShr(a, n)>>)

(* <<quotient, remainder>> of a by b > 0 *)
NatDivMod(a, b) ==
    IF Len(b) = 1
    THEN <<Trim(NatDivSmall(a, b[1])[1]), NatOf(NatDivSmall(a, b[1])[2])>>
    ELSE LongFrom(a, b, NatBits(a) - NatBits(b) + 1)

(* a Python int: sign s (1 or -1) and natural m; zero has sign 1 *)
PyInt(s, m) == [s |-> IF m = <<>> THEN 1 ELSE s, m |-> m]

(* the int of a small number, and the small number of an int *)
IntOfSmall(n) == PyInt(IF n < 0 THEN -1 ELSE 1, NatOf(Abs(n)))

SmallOfInt(n) == n.s * SmallOf(n.m)

----------------------------------------------------------------------------
(* Python floats, which are IEEE 754 doubles.  A finite float is           *)
(* s * m * 2^e exactly: a sign s, a natural m of at most 53 binary digits, *)
(* odd unless zero, and e from -1074 up, the value below 2^1024.  Zero     *)
(* keeps its sign.  An arithmetic operation gives the float nearest to the *)
(* exact result, a tie going to the even one, and inf beyond the largest.  *)

Precision == 53

MinExp == -1074

MaxTop == 1024

Float(s, m, e) == [kind |-> "finite", s |-> s, m |-> m, e |-> e]

Zero(s) == Float(s, <<>>, 0)

Inf(s) == [kind |-> "inf", s |-> s, m |-> <<>>, e |-> 0]

NaN == [kind |-> "nan", s |-> 1, m |-> <<>>, e |-> 0]

Finite(v) == v.kind = "finite"

IsZero(v) == v.kind = "finite" /\ v.m = <<>>

(* the number of zero binary digits at the low end of a small n # 0, and  *)
(* of a natural m # 0                                                      *)
RECURSIVE SmallLowZeros(_)
SmallLowZeros(n) == IF n % 2 = 1 THEN 0 ELSE 1 + SmallLowZeros(n \div 2)

FirstNonZero(m) ==
    CHOOSE j \in 1..Len(m) : m[j] # 0 /\ \A l \in 1..(j - 1) : m[l] = 0

LowZeros(m) ==
    BaseBits * (FirstNonZero(m) - 1) + SmallLowZeros(m[FirstNonZero(m)])

(* the float s * m * 2^e with m made odd; m has at most 53 digits *)
Odd(s, m, e, z) == Float(s, NatShr(m, z), e + z)

Canon(s, m, e) ==
    IF m = <<>> THEN Zero(s)
    ELSE IF NatBits(m) + e > MaxTop THEN Inf(s)
    ELSE Odd(s, m, e, LowZeros(m))

(* m \div 2^d rounded to nearest, a tie to even; sticky says that the     *)
(* exact value has more below the lowest digit of m                        *)
RoundShr(m, d, sticky) ==
    IF d <= 0 THEN NatShl(m, -d)
    ELSE IF NatBit(m, d - 1) = 1
            /\ (sticky \/ ~ NatLowZero(m, d - 1) \/ NatBit(m, d) = 1)
    THEN NatAddC(NatShr(m, d), <<>>, 1)
    ELSE NatShr(m, d)

(* the lowest binary place a float of top digit place top - 1 can hold *)
Quantum(top) == MaxInt(top - Precision, MinExp)

(* the float nearest to s * (m + f) * 2^e, where 0 <= f < 1 and f > 0 iff *)
(* sticky; with sticky, m has two digits more than a float holds          *)
RoundAt(s, m, e, sticky, q) ==
    IF q <= e THEN Canon(s, m, e)
    ELSE Canon(s, RoundShr(m, q - e, sticky), q)

RoundFloat(s, m, e, sticky) ==
    IF m = <<>> THEN Zero(s)
    ELSE RoundAt(s, m, e, sticky, Quantum(NatBits(m) + e))

(* The float nearest to s * a / b for naturals a and b > 0.  The quotient *)
(* is taken of a * 2^sh by b (of a \div 2^-sh if sh < 0), sh such that it *)
(* has two binary digits more than a float holds; what the divisions      *)
(* leave over only tells the rounding that there is more.                  *)
QuotientFloat(s, qr, sh, more) == RoundFloat(s, qr[1], -sh, more \/ qr[2] # <<>>)

RatioAt(s, a, b, sh) ==
    IF sh >= 0 THEN QuotientFloat(s, NatDivMod(NatShl(a, sh), b), sh, FALSE)
    ELSE QuotientFloat(s, NatDivMod(NatShr(a, -sh), b), sh,
                       ~ NatLowZero(a, -sh))

RoundRatio(s, a, b) ==
    IF a = <<>> THEN Zero(s)
    ELSE RatioAt(s, a, b, Precision + 2 + NatBits(b) - NatBits(a))

(* the exact sum s1 * m1 * 2^e + s2 * m2 * 2^e, rounded *)
SumAt(s1, m1, s2, m2, e) ==
    IF s1 = s2 THEN RoundFloat(s1, NatAdd(m1, m2), e, FALSE)
    ELSE IF NatCmp(m1, m2) = 0 THEN Zero(1)
    ELSE IF NatCmp(m1, m2) > 0 THEN RoundFloat(s1, NatSub(m1, m2), e, FALSE)
    ELSE RoundFloat(s2, NatSub(m2, m1), e, FALSE)

(* the place above the highest binary digit of a finite float v # 0 *)
Top(v) == NatBits(v.m) + v.e

(* b is so small beside a that a + b and a - b round to a *)
Far(a, b) == Top(a) - Top(b) > Precision + 2

(* a + b of finite floats, neither zero *)
FiniteAdd(a, b, e) ==
    IF Far(a, b) THEN a
    ELSE IF Far(b, a) THEN b
    ELSE SumAt(a.s, NatShl(a.m, a.e - e), b.s, NatShl(b.m, b.e - e), e)

(* a + b *)
FloatAdd(a, b) ==
    IF a.kind = "nan" \/ b.kind = "nan" THEN NaN
    ELSE IF a.kind = "inf" /\ b.kind = "inf"
    THEN IF a.s = b.s THEN a ELSE NaN
    ELSE IF a.kind = "inf" THEN a
    ELSE IF b.kind = "inf" THEN b
    ELSE IF IsZero(a) /\ IsZero(b)
    THEN Zero(IF a.s = -1 /\ b.s = -1 THEN -1 ELSE 1)
    ELSE IF IsZero(a) THEN b
    ELSE IF IsZero(b) THEN a
    ELSE FiniteAdd(a, b, MinOf(a.e, b.e))

FloatNeg(a) == IF a.kind = "nan" THEN a ELSE [a EXCEPT !.s = -a.s]

FloatAbs(a) == IF a.kind = "nan" THEN a ELSE [a EXCEPT !.s = 1]

(* a - b *)
FloatSub(a, b) == FloatAdd(a, FloatNeg(b))

(* a * n for a small n > 0 *)
FloatMul(a, n) ==
    IF a.kind # "finite" THEN a
    ELSE RoundFloat(a.s, NatMul(a.m, n), a.e, FALSE)

(* a < b of finite floats, neither zero *)
FiniteLess(a, b, e) ==
    IF a.s # b.s THEN a.s < b.s
    ELSE IF Top(a) # Top(b) THEN (a.s = 1) = (Top(a) < Top(b))
    ELSE IF a.s = 1 THEN NatCmp(NatShl(a.m, a.e - e), NatShl(b.m, b.e - e)) < 0
    ELSE NatCmp(NatShl(a.m, a.e - e), NatShl(b.m, b.e - e)) > 0

FloatLess(a, b) ==
    IF a.kind = "nan" \/ b.kind = "nan" THEN FALSE
    ELSE IF IsZero(a) /\ IsZero(b) THEN FALSE
    ELSE IF a.kind = "inf" THEN a.s = -1 /\ ~ (b.kind = "inf" /\ b.s = -1)
    ELSE IF b.kind = "inf" THEN b.s = 1
    ELSE IF IsZero(a) THEN b.s = 1
    ELSE IF IsZero(b) THEN a.s = -1
    ELSE FiniteLess(a, b, MinOf(a.e, b.e))

(* the float of an int n: float(n), exact for the ints drawn below *)
FloatOfInt(n) == RoundFloat(n.s, n.m, 0, FALSE)

(* n / d of an int n by a small d > 0: Python's true division *)
TrueDiv(n, d) == RoundRatio(n.s, n.m, NatOf(d))

(* round(v) of a finite float: the nearest int, a tie to the even one *)
RoundInt(v) ==
    IF v.e >= 0 THEN PyInt(v.s, NatShl(v.m, v.e))
    ELSE PyInt(v.s, RoundShr(v.m, -v.e, FALSE))

(* round(v, n) of a finite float for a small n >= 0: the float nearest to *)
(* the decimal of n places nearest to v, a tie to the even one             *)
RoundPlaces(v, n) ==
    IF ~ Finite(v) \/ IsZero(v) THEN v
    ELSE IF v.e >= 0 THEN v
    ELSE RoundRatio(v.s, RoundShr(NatMulPow10(v.m, n), -v.e, FALSE),
                    NatMulPow10(<<1>>, n))

----------------------------------------------------------------------------
(* The conversions of run_layout_optimizer *)

(* int(x) of a finite float: the digits before the point *)
Truncated(v) ==
    IF v.e >= 0 THEN PyInt(v.s, NatShl(v.m, v.e))
    ELSE PyInt(v.s, NatShr(v.m, -v.e))

Half == Float(1, <<1>>, -1)

(* scale_up with a tie rounded up, as int(v * scale + 0.5) would *)
scale_up_half_up(v) == Truncated(FloatAdd(FloatMul(v, scale), Half))

(* scale_up(v) = int(round(v * scale)) of a finite v * scale *)
scale_up(v) == RoundInt(FloatMul(v, scale))

(* what scale_up raises: round() of nan is a ValueError, of an infinity an *)
(* OverflowError                                                           *)
scale_up_raises(v) ==
    IF FloatMul(v, scale).kind = "nan" THEN "ValueError"
    ELSE IF FloatMul(v, scale).kind = "inf" THEN "OverflowError"
    ELSE "none"

----------------------------------------------------------------------------
(* The packer made by newPacker(rotation=True): rectpack's offline packer   *)
(* with best-bin-fit bin selection, the MaxRectsBssf bin algorithm and      *)
(* rectangles sorted by decreasing area.                                    *)

Rectangle(x, y, w, h) == [x |-> x, y |-> y, width |-> w, height |-> h]

Placed(r, rid) ==
    [x |-> r.x, y |-> r.y, width |-> r.width, height |-> r.height, rid |-> rid]

NoFit == -1

(* Rectangle.intersects(rect, edges=False) *)
intersects(m, r) ==
    ~ (  m.y >= r.y + r.height \/ m.y + m.height <= r.y
      \/ m.x >= r.x + r.width  \/ m.x + m.width <= r.x)

(* Rectangle.contains(rect) *)
contains(m, r) ==
    /\ r.y >= m.y
    /\ r.x >= m.x
    /\ r.y + r.height <= m.y + m.height
    /\ r.x + r.width <= m.x + m.width

(* _rect_fitness with the height held against the free rectangle's width *)
rect_fitness_width_only(m, w, h) ==
    IF w > m.width \/ h > m.width THEN NoFit
    ELSE MinOf(m.width - w, Abs(m.height - h))

(* MaxRectsBssf._rect_fitness: the shorter leftover side, or no fit *)
rect_fitness(m, w, h) ==
    IF w > m.width \/ h > m.height THEN NoFit
    ELSE MinOf(m.width - w, m.height - h)

(* MaxRects._select_position: the candidates are the free rectangles in    *)
(* list order, first for the rectangle as given and then (rot=True) for it *)
(* turned; min() keeps the first candidate of least fitness.               *)
Candidates(max_rects, w, h) ==
    LET n      == Len(max_rects)
        normal == [j \in 1..n |->
                     [fit |-> rect_fitness(max_rects[j], w, h),
                      w |-> w, h |-> h, m |-> max_rects[j]]]
        turned == [j \in 1..n |->
                     [fit |-> rect_fitness(max_rects[j], h, w),
                      w |-> h, h |-> w, m |-> max_rects[j]]]
        Fits(c) == c.fit # NoFit
    IN  SelectSeq(normal \o turned, Fits)

select_position(max_rects, w, h) ==
    LET c == Candidates(max_rects, w, h)
        b == CHOOSE j \in 1..Len(c) :
                 /\ \A l \in 1..Len(c) : c[l].fit >= c[j].fit
                 /\ \A l \in 1..(j - 1) : c[l].fit > c[j].fit
    IN  c[b]

HasPosition(max_rects, w, h) == Len(Candidates(max_rects, w, h)) > 0

(* MaxRects.fitness of a bin for a rectangle; NoFit if it cannot be placed *)
fitness(bin, w, h) ==
    IF HasPosition(bin.max_rects, w, h)
    THEN select_position(bin.max_rects, w, h).fit
    ELSE NoFit

(* MaxRects._generate_splits: up to four free rectangles around r inside m *)
generate_splits(m, r) ==
       (IF r.x > m.x
        THEN <<Rectangle(m.x, m.y, r.x - m.x, m.height)>> ELSE <<>>)
    \o (IF r.x + r.width < m.x + m.width
        THEN <<Rectangle(r.x + r.width, m.y,
                         m.x + m.width - (r.x + r.width), m.height)>>
        ELSE <<>>)
    \o (IF r.y + r.height < m.y + m.height
        THEN <<Rectangle(m.x, r.y + r.height, m.width,
                         m.y + m.height - (r.y + r.height))>>
        ELSE <<>>)
    \o (IF r.y > m.y
        THEN <<Rectangle(m.x, m.y, m.width, r.y - m.y)>> ELSE <<>>)

(* _split that splits only the free rectangle r was placed at the corner of *)
RECURSIVE split_chosen_only(_, _)
split_chosen_only(max_rects, r) ==
    IF max_rects = <<>> THEN <<>>
    ELSE (IF Head(max_rects).x = r.x /\ Head(max_rects).y = r.y
          THEN generate_splits(Head(max_rects), r)
          ELSE <<Head(max_rects)>>)
         \o split_chosen_only(Tail(max_rects), r)

(* MaxRects._split: every free rectangle meeting r is replaced by its splits *)
RECURSIVE split(_, _)
split(max_rects, r) ==
    IF max_rects = <<>> THEN <<>>
    ELSE (IF intersects(Head(max_rects), r)
          THEN generate_splits(Head(max_rects), r)
          ELSE <<Head(max_rects)>>)
         \o split(Tail(max_rects), r)

(* MaxRects._remove_duplicates: for each pair in list order the contained  *)
(* one is put in a set; the set compares rectangles by value.              *)
remove_duplicates(max_rects) ==
    LET n == Len(max_rects)
        contained ==
            {max_rects[b] : <<a, b>> \in
                {p \in (1..n) \X (1..n) :
                    p[1] < p[2] /\ contains(max_rects[p[1]], max_rects[p[2]])}}
            \cup
            {max_rects[a] : <<a, b>> \in
                {p \in (1..n) \X (1..n) :
                    /\ p[1] < p[2]
                    /\ ~ contains(max_rects[p[1]], max_rects[p[2]])
                    /\ contains(max_rects[p[2]], max_rects[p[1]])}}
        Kept(m) == m \notin contained
    IN  SelectSeq(max_rects, Kept)

(* MaxRects.reset / BinFactory.new_bin: an empty bin *)
new_bin(w, h) ==
    [rectangles |-> <<>>, max_rects |-> <<Rectangle(0, 0, w, h)>>]

(* MaxRects.add_rect on a bin where the rectangle has a position *)
bin_add_rect(bin, w, h, rid) ==
    LET c == select_position(bin.max_rects, w, h)
        r == Rectangle(c.m.x, c.m.y, c.w, c.h)
    IN  [rectangles |-> Append(bin.rectangles, Placed(r, rid)),
         max_rects  |-> remove_duplicates(split(bin.max_rects, r))]

(* PackingAlgorithm._fits_surface with rot=True *)
fits_surface(bw, bh, w, h) ==
    LET turn == w > bw \/ h > bh
        w2   == IF turn THEN h ELSE w
        h2   == IF turn THEN w ELSE h
    IN  ~ (w2 > bw \/ h2 > bh)

(* SORT_AREA: sorted(rectlist, reverse=True, key=area), a stable sort *)
Area(r) == r[1] * r[2]

(* the place of rectangle j in the sorted list: after every rectangle of   *)
(* greater area and every earlier rectangle of the same area               *)
AreaRank(rects, j) ==
    Cardinality({l \in 1..Len(rects) :
                    \/ Area(rects[l]) > Area(rects[j])
                    \/ Area(rects[l]) = Area(rects[j]) /\ l < j}) + 1

SORT_AREA(rects) ==
    [p \in 1..Len(rects) |->
        rects[CHOOSE j \in 1..Len(rects) : AreaRank(rects, j) = p]]

----------------------------------------------------------------------------
(* Parsing helpers.  A character is its Unicode code point and a string is  *)
(* a sequence of characters, so that every character Python tells apart     *)
(* can be told apart here.                                                  *)

(* the printable ASCII characters, from the blank (32) to the tilde (126); *)
(* the grave accent (96) is written by its name                            *)
Ascii ==
    <<" ", "!", "\"", "#", "$", "%", "&", "'", "(", ")", "*", "+",
       ",", "-", ".", "/", "0", "1", "2", "3", "4", "5", "6", "7",
       "8", "9", ":", ";", "<", "=", ">", "?", "@", "A", "B", "C",
       "D", "E", "F", "G", "H", "I", "J", "K", "L", "M", "N", "O",
       "P", "Q", "R", "S", "T", "U", "V", "W", "X", "Y", "Z", "[",
       "\\", "]", "^", "_", "grave", "a", "b", "c", "d", "e", "f", "g",
       "h", "i", "j", "k", "l", "m", "n", "o", "p", "q", "r", "s",
       "t", "u", "v", "w", "x", "y", "z", "{", "|", "}", "~">>

(* ord(c) of a printable ASCII character written as a TLA+ string *)
Ord(c) == 31 + CHOOSE j \in 1..Len(Ascii) : Ascii[j] = c

(* the string of a sequence of printable ASCII characters *)
Str(s) == [j \in 1..Len(s) |-> Ord(s[j])]

(* the characters the parsers look for, by code point *)
Slash == 47

Point == 46

Blank == 32

Underscore == 95

At == 64

Plus == 43

Minus == 45

Signs == {Plus, Minus}

(* e and E *)
LetterE == {101, 69}

(* x and X *)
LetterX == {120, 88}

LetterL == 76

LetterW == 87

(* the words float() takes for an infinity, and for nan, in lower case:    *)
(* "inf", "infinity" and "nan"                                             *)
InfWords ==
    {<<105, 110, 102>>, <<105, 110, 102, 105, 110, 105, 116, 121>>}

NanWord == <<110, 97, 110>>

(* A whitespace character, as the pattern's \s, str.strip() and            *)
(* str.split() take it: tab to carriage return, the separators 0x1c-0x1f,  *)
(* the blank, and the Unicode spaces.                                      *)
IsWs(c) ==
    \/ c \in 9..13
    \/ c \in 28..32
    \/ c \in {133, 160, 5760}
    \/ c \in 8192..8202
    \/ c \in {8232, 8233, 8239, 8287, 12288}

(* [0-9] of the two dimension groups of the line pattern *)
IsAsciiDigit(c) == c \in 48..57

(* The first code point (the zero) of every run of ten Unicode decimal     *)
(* digits: what \d matches and int(), float() and Fraction() read.         *)
DigitRuns ==
    { 48, 1632, 1776, 1984, 2406, 2534, 2662, 2790, 2918,
      3046, 3174, 3302, 3430, 3558, 3664, 3792, 3872, 4160,
      4240, 6112, 6160, 6470, 6608, 6784, 6800, 6992, 7088,
      7232, 7248, 42528, 43216, 43264, 43472, 43504, 43600, 44016,
      65296, 66720, 68912, 69734, 69872, 69942, 70096, 70384, 70736,
      70864, 71248, 71360, 71472, 71904, 72016, 72784, 73040, 73120,
      92768, 92864, 93008, 120782, 120792, 120802, 120812, 120822, 123200,
      123632, 125264, 130032 }

IsDigit(c) == \E z \in DigitRuns : c \in z..(z + 9)

DigitVal(c) == c - (CHOOSE z \in DigitRuns : c \in z..(z + 9))

(* the character class of the two dimension groups of the line pattern *)
IsDim(c) == IsAsciiDigit(c) \/ c = Slash \/ c = Point \/ IsWs(c)

MaxOf(S) == CHOOSE a \in S : \A b \in S : b <= a

RECURSIVE LStrip(_)
LStrip(s) ==
    IF s # <<>> /\ IsWs(Head(s)) THEN LStrip(Tail(s)) ELSE s

RECURSIVE RStrip(_)
RStrip(s) ==
    IF s # <<>> /\ IsWs(s[Len(s)]) THEN RStrip(SubSeq(s, 1, Len(s) - 1)) ELSE s

(* str.strip() *)
Strip(s) == RStrip(LStrip(s))

HasChar(s, c) == \E j \in 1..Len(s) : s[j] = c

(* digits, with single underscores between digits allowed *)
IsDigits(s) ==
    /\ s # <<>>
    /\ \A j \in 1..Len(s) :
           \/ IsDigit(s[j])
           \/ /\ s[j] = Underscore
              /\ j > 1 /\ j < Len(s)
              /\ IsDigit(s[j - 1]) /\ IsDigit(s[j + 1])

(* int(s) of digits, the underscores passed over *)
RECURSIVE IntOf(_)
IntOf(s) ==
    IF s = <<>> THEN 0
    ELSE IF s[Len(s)] = Underscore THEN IntOf(SubSeq(s, 1, Len(s) - 1))
    ELSE 10 * IntOf(SubSeq(s, 1, Len(s) - 1)) + DigitVal(s[Len(s)])

(* the number of digits of s *)
NumDigits(s) == Cardinality({j \in 1..Len(s) : IsDigit(s[j])})

(* the natural of digits, the underscores passed over *)
RECURSIVE NatOfDigits(_)
NatOfDigits(s) ==
    IF s = <<>> THEN <<>>
    ELSE IF s[Len(s)] = Underscore THEN NatOfDigits(SubSeq(s, 1, Len(s) - 1))
    ELSE NatAddC(NatMul(NatOfDigits(SubSeq(s, 1, Len(s) - 1)), 10), <<>>,
                 DigitVal(s[Len(s)]))

(* str.split(): the maximal runs of non-whitespace characters *)
RECURSIVE Split(_)
Split(s) ==
    LET t == LStrip(s)
        e == IF \E j \in 1..Len(t) : IsWs(t[j])
             THEN (CHOOSE j \in 1..Len(t) :
                       IsWs(t[j]) /\ \A l \in 1..(j - 1) : ~ IsWs(t[l])) - 1
             ELSE Len(t)
    IN  IF t = <<>> THEN <<>>
        ELSE <<SubSeq(t, 1, e)>> \o Split(SubSeq(t, e + 1, Len(t)))

(* the first place in s of a character of C, or 0 *)
FirstOf(s, C) ==
    IF \E j \in 1..Len(s) : s[j] \in C
    THEN CHOOSE j \in 1..Len(s) : s[j] \in C /\ \A l \in 1..(j - 1) : s[l] \notin C
    ELSE 0

(* s up to place p, all of s if p is 0; s after place p, nothing if p is 0 *)
UpTo(s, p) == IF p = 0 THEN s ELSE SubSeq(s, 1, p - 1)

From(s, p) == IF p = 0 THEN <<>> ELSE SubSeq(s, p + 1, Len(s))

(* the part of s before the first character of C (all of s if none), and   *)
(* the part after it                                                       *)
Before(s, C) == UpTo(s, FirstOf(s, C))

After(s, C) == From(s, FirstOf(s, C))

Ok(v) == [err |-> "none", val |-> v]

Raise(e) == [err |-> e, val |-> Zero(1)]

HasSign(s) == s # <<>> /\ s[1] \in Signs

Sign(s) == IF s # <<>> /\ s[1] = Minus THEN -1 ELSE 1

Unsigned(s) == IF HasSign(s) THEN Tail(s) ELSE s

(* ASCII lower case *)
Lower(s) == [j \in 1..Len(s) |-> IF s[j] \in 65..90 THEN s[j] + 32 ELSE s[j]]

(* The decimal literal float() and Fraction() both read: an optional sign, *)
(* digits with an optional point (a digit on one side of it at least), an  *)
(* optional exponent e or E with an optional sign and digits.              *)

(* the float nearest to sg * n * 10^x, n a natural *)
DecimalFloat(sg, n, x) ==
    IF x >= 0 THEN RoundFloat(sg, NatMulPow10(n, x), 0, FALSE)
    ELSE RoundRatio(sg, n, NatMulPow10(<<1>>, -x))

(* sign sg, digits a before the point, digits b after it, and the exponent *)
(* x, which is there if hasExp                                             *)
NumberOf(sg, a, b, hasExp, x) ==
    IF /\ a = <<>> \/ IsDigits(a)
       /\ b = <<>> \/ IsDigits(b)
       /\ a # <<>> \/ b # <<>>
       /\ hasExp => IsDigits(Unsigned(x))
    THEN Ok(DecimalFloat(sg, NatOfDigits(a \o b),
                         Sign(x) * IntOf(Unsigned(x)) - NumDigits(b)))
    ELSE Raise("ValueError")

(* sign sg, mantissa m, and the exponent *)
MantissaOf(sg, m, hasExp, x) ==
    NumberOf(sg, Before(m, {Point}), After(m, {Point}), hasExp, x)

ParseNumber(s) ==
    MantissaOf(Sign(s), Before(Unsigned(s), LetterE),
               FirstOf(Unsigned(s), LetterE) # 0,
               After(Unsigned(s), LetterE))

(* the float of an unsigned word w in lower case of the literal s *)
FloatOf(s, w) ==
    IF w \in InfWords THEN Ok(Inf(Sign(s)))
    ELSE IF w = NanWord THEN Ok(NaN)
    ELSE ParseNumber(s)

(* float(s): inf, infinity and nan in any case and with a sign, or a       *)
(* decimal literal; anything else is a ValueError                          *)
ParseDecimal(s) == FloatOf(s, Lower(Unsigned(s)))

(* the Fraction sg * a / b as a float, a and b the two sides of the slash *)
RatioOf(sg, a, b) ==
    IF ~ IsDigits(a) \/ ~ IsDigits(b) THEN Raise("ValueError")
    ELSE IF NatOfDigits(b) = <<>> THEN Raise("ZeroDivisionError")
    ELSE Ok(RoundRatio(sg, NatOfDigits(a), NatOfDigits(b)))

(* the digits of the numerator of the literal u of a Fraction: the side   *)
(* before the slash, or the mantissa of a decimal literal less its point   *)
NumeratorDigits(u) ==
    IF HasChar(u, Slash) THEN Before(u, {Slash})
    ELSE Before(Before(u, LetterE), {Point})
         \o After(Before(u, LetterE), {Point})

(* float() of a Fraction, numerator / denominator of two ints: the nearest *)
(* float, an OverflowError beyond the largest; a Fraction that is zero has *)
(* no sign, one that is not and lies below the smallest float keeps it     *)
FractionFloat(r, zero) ==
    IF r.err # "none" THEN r
    ELSE IF r.val.kind = "inf" THEN Raise("OverflowError")
    ELSE IF zero THEN Ok(Zero(1))
    ELSE r

(* float(Fraction(s)): an optional sign and "a/b" with digits on both      *)
(* sides, or a decimal literal; a zero denominator raises                  *)
(* ZeroDivisionError                                                       *)
ParseFraction(s) ==
    FractionFloat(IF HasChar(s, Slash)
                  THEN RatioOf(Sign(s), Before(Unsigned(s), {Slash}),
                               After(Unsigned(s), {Slash}))
                  ELSE ParseNumber(s),
                  NatOfDigits(NumeratorDigits(Unsigned(s))) = <<>>)

(* whole + frac, or the exception of the first that raised *)
Mixed(whole, frac) ==
    IF whole.err # "none" THEN whole
    ELSE IF frac.err # "none" THEN frac
    ELSE Ok(FloatAdd(whole.val, frac.val))

(* the branches of parse_fractional_inches on the stripped value *)
InchesOf(value, parts) ==
    IF HasChar(value, Blank)
    THEN IF Len(parts) # 2 THEN Raise("ValueError")
         ELSE Mixed(ParseDecimal(parts[1]), ParseFraction(parts[2]))
    ELSE IF HasChar(value, Slash) THEN ParseFraction(value)
    ELSE ParseDecimal(value)

parse_fractional_inches(raw) == InchesOf(Strip(raw), Split(Strip(raw)))

----------------------------------------------------------------------------
(* The line pattern of parse_cut_line, matched as re.match does: from the   *)
(* start of the line, every quantifier greedy, giving back characters only  *)
(* when the rest of the pattern cannot match otherwise.                     *)
(* The pattern is, in order: an optional quantity (digits, blanks, an @,   *)
(* blanks), the length group (one or more of digit, slash, point, blank),   *)
(* blanks, an x or X, blanks, the width group (same class), and an optional *)
(* grain (one or more blanks, then L or W).                                 *)
(* A position is an index into the line; an end is one past the last        *)
(* character taken.                                                         *)

DimEnds(s, p) ==
    {e \in (p + 1)..(Len(s) + 1) : \A j \in p..(e - 1) : IsDim(s[j])}

DigitEnds(s, p) ==
    {e \in (p + 1)..(Len(s) + 1) : \A j \in p..(e - 1) : IsDigit(s[j])}

WsEnds(s, p) ==
    {e \in p..(Len(s) + 1) : \A j \in p..(e - 1) : IsWs(s[j])}

(* blanks and the width group after the x: where the group may start *)
WidthStarts(s, p) == {b \in WsEnds(s, p) : DimEnds(s, b) # {}}

(* blanks and the x after the length group ended at e: where the x may be *)
XPositions(s, e) ==
    {x \in WsEnds(s, e) :
        x <= Len(s) /\ s[x] \in LetterX /\ WidthStarts(s, x + 1) # {}}

(* the length group from p: the ends from which the rest can match *)
LengthEnds(s, p) == {e \in DimEnds(s, p) : XPositions(s, e) # {}}

(* the quantity part: the positions of an @ that a quantity can be read up to *)
QtyAts(s) ==
    {a \in 1..Len(s) :
        /\ s[a] = At
        /\ \E d \in DigitEnds(s, 1) : a \in WsEnds(s, d)
        /\ \E b \in WsEnds(s, a + 1) : LengthEnds(s, b) # {}}

(* the optional grain after the width group ended at e *)
GrainAt(s, e) ==
    LET qs == {q \in WsEnds(s, e) :
                  q > e /\ q <= Len(s) /\ s[q] \in {LetterL, LetterW}}
    IN  IF qs = {} THEN "None"
        ELSE IF s[MaxOf(qs)] = LetterL THEN "L" ELSE "W"

NoMatch == [matched |-> FALSE]

Match(s) ==
    IF QtyAts(s) = {} /\ LengthEnds(s, 1) = {} THEN NoMatch
    ELSE
        LET hasQty == QtyAts(s) # {}
            at     == IF hasQty THEN MaxOf(QtyAts(s)) ELSE 0
            qend   == IF hasQty
                      THEN MaxOf({d \in DigitEnds(s, 1) : at \in WsEnds(s, d)})
                      ELSE 1
            b2     == IF hasQty
                      THEN MaxOf({b \in WsEnds(s, at + 1) : LengthEnds(s, b) # {}})
                      ELSE 1
            e2     == MaxOf(LengthEnds(s, b2))
            x      == MaxOf(XPositions(s, e2))
            b3     == MaxOf(WidthStarts(s, x + 1))
            e3     == MaxOf(DimEnds(s, b3))
        IN  [matched    |-> TRUE,
             qty_str    |-> SubSeq(s, 1, qend - 1),
             raw_length |-> SubSeq(s, b2, e2 - 1),
             raw_width  |-> SubSeq(s, b3, e3 - 1),
             grain      |-> GrainAt(s, e3)]

(* the record of a line, or the exception of the first dimension that     *)
(* raised                                                                  *)
CutRecord(quantity, length, width, grain) ==
    IF length.err # "none" THEN [err |-> length.err]
    ELSE IF width.err # "none" THEN [err |-> width.err]
    ELSE [err |-> "none", length |-> length.val, width |-> width.val,
          grain |-> grain, quantity |-> quantity]

(* parse_cut_line after re.match gave m *)
CutLine(m) ==
    IF ~ m.matched THEN [err |-> "ValueError"]
    ELSE CutRecord(IF m.qty_str # <<>> THEN IntOf(m.qty_str) ELSE 1,
                   parse_fractional_inches(m.raw_length),
                   parse_fractional_inches(m.raw_width), m.grain)

(* parse_cut_line: the record, or the exception it raises *)
parse_cut_line(line) == CutLine(Match(Strip(line)))

Piece(length, width, grain) ==
    [length |-> length, width |-> width, grain |-> grain]

(* the inner loop of parse_cut_list: quantity copies of the piece *)
Copies(piece, n) ==
    [j \in 1..n |-> Piece(piece.length, piece.width, piece.grain)]

----------------------------------------------------------------------------
(* The state.                                                               *)
(*   pc            where the run is: "ui" (button pressed), "parse"         *)
(*                 (parse_cut_list), "start", "add", "pack", "summary"      *)
(*                 (run_layout_optimizer and the summary), "done", or       *)
(*                 "error" (an exception left the run)                      *)
(*   error         the exception the handler caught, "none" if none         *)
(*   ui, text      the form's text inputs; text is the cut list, by lines   *)
(*   pieces        the list parse_cut_list builds                           *)
(*   cuts, sheet_length, sheet_width, kerf   arguments of the optimizer     *)
(*   avail_rect, sorted_rect, open_bins, empty_bins   the packer's state    *)
(*   rows          the rows of the layout summary                           *)
(*   foot          the two footprint sides w, h made of one cut             *)
(*   report        the width and height a row reports for foot              *)

NoUi == [sheet_length |-> <<>>, sheet_width |-> <<>>, kerf |-> <<>>]

(* the float 0.01 *)
Tolerance == RoundRatio(1, <<1>>, <<100>>)

(* the Optimize Layout handler, up to the call of parse_cut_list *)
ParseInputs ==
    /\ pc = "ui"
    /\ LET sheet_L  == parse_fractional_inches(ui.sheet_length)
           sheet_W  == parse_fractional_inches(ui.sheet_width)
           kerf_val == parse_fractional_inches(ui.kerf)
           good     == sheet_L.err = "none" /\ sheet_W.err = "none"
                         /\ kerf_val.err = "none"
           bad      == IF sheet_L.err # "none" THEN sheet_L.err
                       ELSE IF sheet_W.err # "none" THEN sheet_W.err
                       ELSE kerf_val.err
       IN  /\ pc' = IF good THEN "parse" ELSE "error"
           /\ error' = IF good THEN error ELSE bad
           /\ sheet_length' = IF good THEN sheet_L.val ELSE sheet_length
           /\ sheet_width' = IF good THEN sheet_W.val ELSE sheet_width
           /\ kerf' = IF good THEN kerf_val.val ELSE kerf
    /\ lineNo' = 1
    /\ UNCHANGED <<foot, report, ui, text, pieces, warnings, cuts, bin_width, bin_height,
                   avail_rect, i, sorted_rect, k, open_bins, empty_bins, rows>>

(* one turn of the loop of parse_cut_list: a blank line is passed over, a  *)
(* ValueError is caught and reported as a warning, any other exception     *)
(* leaves parse_cut_list and is caught by the handler                       *)
ParseLine ==
    /\ pc = "parse"
    /\ lineNo <= Len(text)
    /\ LET line  == text[lineNo]
           piece == parse_cut_line(line)
       IN  IF Strip(line) = <<>>
           THEN UNCHANGED <<pc, error, pieces, warnings>>
           ELSE IF piece.err = "none"
           THEN /\ pieces' = pieces \o Copies(piece, piece.quantity)
                /\ UNCHANGED <<pc, error, warnings>>
           ELSE IF piece.err = "ValueError"
           THEN /\ warnings' = warnings + 1
                /\ UNCHANGED <<pc, error, pieces>>
           ELSE /\ pc' = "error"
                /\ error' = piece.err
                /\ UNCHANGED <<pieces, warnings>>
    /\ lineNo' = lineNo + 1
    /\ UNCHANGED <<foot, report, ui, text, sheet_length, sheet_width, kerf, cuts, bin_width,
                   bin_height, avail_rect, i, sorted_rect, k, open_bins,
                   empty_bins, rows>>

(* parse_cut_list returns its pieces, which the handler names cuts *)
ParseDone ==
    /\ pc = "parse"
    /\ lineNo > Len(text)
    /\ cuts' = pieces
    /\ pc' = "start"
    /\ UNCHANGED <<foot, report, error, ui, text, lineNo, pieces, warnings, sheet_length,
                   sheet_width, kerf, bin_width, bin_height, avail_rect, i,
                   sorted_rect, k, open_bins, empty_bins, rows>>

(* run_layout_optimizer up to its loop: the bin size and the hundred bins *)
AddBins ==
    /\ pc = "start"
    /\ IF scale_up_raises(sheet_width) # "none"
       THEN /\ pc' = "error"
            /\ error' = scale_up_raises(sheet_width)
            /\ UNCHANGED <<bin_width, bin_height, empty_bins, open_bins,
                           avail_rect, i>>
       ELSE IF scale_up_raises(sheet_length) # "none"
       THEN /\ pc' = "error"
            /\ error' = scale_up_raises(sheet_length)
            /\ UNCHANGED <<bin_width, bin_height, empty_bins, open_bins,
                           avail_rect, i>>
       ELSE /\ bin_width' = SmallOfInt(scale_up(sheet_width))
            /\ bin_height' = SmallOfInt(scale_up(sheet_length))
            /\ empty_bins' = NumBins
            /\ open_bins' = <<>>
            /\ avail_rect' = <<>>
            /\ i' = 1
            /\ pc' = "add"
            /\ UNCHANGED error
    /\ UNCHANGED <<foot, report, ui, text, lineNo, pieces, warnings, sheet_length,
                   sheet_width, kerf, cuts, sorted_rect, k, rows>>

(* w, h = h, w if the grain asks for it *)
Swapped(cut, w, h) ==
    IF \/ cut.grain = "L" /\ FloatLess(cut.length, cut.width)
       \/ cut.grain = "W" /\ FloatLess(cut.width, cut.length)
    THEN <<h, w>>
    ELSE <<w, h>>

(* the footprint the loop hands to packer.add_rect for a cut *)
Footprint(cut, kf) ==
    Swapped(cut, scale_up(FloatAdd(cut.width, kf)),
            scale_up(FloatAdd(cut.length, kf)))

(* what the two scale_up of a turn of the loop raise, the first first *)
FootprintRaises(cut, kf) ==
    IF scale_up_raises(FloatAdd(cut.width, kf)) # "none"
    THEN scale_up_raises(FloatAdd(cut.width, kf))
    ELSE scale_up_raises(FloatAdd(cut.length, kf))

(* one turn of the loop over the cuts; rid is the 0-based index *)
AddRect ==
    /\ pc = "add"
    /\ i <= Len(cuts)
    /\ IF FootprintRaises(cuts[i], kerf) # "none"
       THEN /\ pc' = "error"
            /\ error' = FootprintRaises(cuts[i], kerf)
            /\ UNCHANGED <<avail_rect, i>>
       ELSE /\ avail_rect' = Append(avail_rect,
                                    <<SmallOfInt(Footprint(cuts[i], kerf)[1]),
                                      SmallOfInt(Footprint(cuts[i], kerf)[2]),
                                      i - 1>>)
            /\ i' = i + 1
            /\ UNCHANGED <<pc, error>>
    /\ UNCHANGED <<foot, report, ui, text, lineNo, pieces, warnings, sheet_length,
                   sheet_width, kerf, cuts, bin_width, bin_height,
                   sorted_rect, k, open_bins, empty_bins, rows>>

(* packer.pack(): nothing to do without rectangles, else sort them *)
Pack ==
    /\ pc = "add"
    /\ i > Len(cuts)
    /\ sorted_rect' = SORT_AREA(avail_rect)
    /\ k' = 1
    /\ pc' = IF avail_rect = <<>> THEN "summary" ELSE "pack"
    /\ UNCHANGED <<foot, report, error, ui, text, lineNo, pieces, warnings, sheet_length,
                   sheet_width, kerf, cuts, bin_width, bin_height,
                   avail_rect, i, open_bins, empty_bins, rows>>

(* the open bins where the rectangle can be placed *)
FitBins(bins, w, h) == {b \in 1..Len(bins) : fitness(bins[b], w, h) # NoFit}

(* min() over the open bins by fitness: the first bin of least fitness *)
BestBin(bins, w, h) ==
    CHOOSE b \in FitBins(bins, w, h) :
        /\ \A c \in FitBins(bins, w, h) :
               fitness(bins[c], w, h) >= fitness(bins[b], w, h)
        /\ \A c \in FitBins(bins, w, h) :
               c < b => fitness(bins[c], w, h) > fitness(bins[b], w, h)

(* the assertions of the bin algorithm that fail for this rectangle: a     *)
(* rectangle needs a positive width and height wherever a bin is asked     *)
(* about it, and a bin cannot be made with a negative side                 *)
AssertionFails(bins, empties, bw, bh, w, h) ==
    \/ Len(bins) > 0 /\ ~ (w > 0 /\ h > 0)
    \/ Len(bins) = 0 /\ empties > 0 /\ (bw < 0 \/ bh < 0 \/ ~ (w > 0 /\ h > 0))

(* one turn of the loop of pack(): best-bin-fit add_rect.  The rectangle   *)
(* goes to the open bin of least fitness; if none takes it, new bins are   *)
(* opened, while one is left that the rectangle fits by its surface, until *)
(* one takes it; else it is left out.                                      *)
PackRect ==
    /\ pc = "pack"
    /\ k <= Len(sorted_rect)
    /\ LET w   == sorted_rect[k][1]
           h   == sorted_rect[k][2]
           rid == sorted_rect[k][3]
       IN  IF AssertionFails(open_bins, empty_bins, bin_width, bin_height, w, h)
           THEN /\ pc' = "error"
                /\ error' = "AssertionError"
                /\ UNCHANGED <<k, open_bins, empty_bins>>
           ELSE /\ k' = k + 1
                /\ UNCHANGED error
                /\ pc' = IF k = Len(sorted_rect) THEN "summary" ELSE "pack"
                /\ IF FitBins(open_bins, w, h) # {}
                   THEN /\ open_bins' =
                              [open_bins EXCEPT ![BestBin(open_bins, w, h)] =
                                  bin_add_rect(@, w, h, rid)]
                        /\ UNCHANGED empty_bins
                   ELSE IF empty_bins > 0
                           /\ fits_surface(bin_width, bin_height, w, h)
                   THEN IF HasPosition(new_bin(bin_width, bin_height).max_rects,
                                       w, h)
                        THEN /\ open_bins' =
                                   Append(open_bins,
                                          bin_add_rect(new_bin(bin_width,
                                                               bin_height),
                                                       w, h, rid))
                             /\ empty_bins' = empty_bins - 1
                        ELSE /\ open_bins' =
                                   open_bins \o
                                   [j \in 1..empty_bins |->
                                       new_bin(bin_width, bin_height)]
                             /\ empty_bins' = 0
                   ELSE UNCHANGED <<open_bins, empty_bins>>
    /\ UNCHANGED <<foot, report, ui, text, lineNo, pieces, warnings, sheet_length,
                   sheet_width, kerf, cuts, bin_width, bin_height,
                   avail_rect, i, sorted_rect, rows>>

(* the reported side with the kerf left in *)
(* the width or height reported for a footprint side: round(s/100 - kerf, 4) *)
Reported(side, kf) ==
    RoundPlaces(FloatSub(TrueDiv(side, Hundredths), kf), Places)

(* abs(a - b) < 0.01 *)
Near(a, b) == FloatLess(FloatAbs(FloatSub(a, b)), Tolerance)

(* round(n / 100, 4) of a place of the packer *)
Inches(n) == RoundPlaces(TrueDiv(IntOfSmall(n), Hundredths), Places)

(* the row of a rectangle of reported size width by height *)
RowOf(sheet_num, rect, cut, width, height) ==
    [Sheet   |-> sheet_num,
     X       |-> Inches(rect.x),
     Y       |-> Inches(rect.y),
     Width   |-> width,
     Height  |-> height,
     Rotated |-> ~ (Near(width, cut.width) /\ Near(height, cut.length)),
     Grain   |-> IF cut.grain = "None" THEN "Any" ELSE cut.grain]

(* the row generate_layout_summary makes of a rectangle of a sheet *)
SummaryRow(sheet_num, rect, cut, kf) ==
    RowOf(sheet_num, rect, cut, Reported(IntOfSmall(rect.width), kf),
          Reported(IntOfSmall(rect.height), kf))

(* the rectangles of the sheets in the order of the two loops, each with  *)
(* its sheet number                                                        *)
RECURSIVE Placements(_, _)
Placements(bins, b) ==
    IF b > Len(bins) THEN <<>>
    ELSE [j \in 1..Len(bins[b].rectangles) |->
             [sheet_num |-> b, rect |-> bins[b].rectangles[j]]]
         \o Placements(bins, b + 1)

RowsOf(ps, cs, kf) ==
    [j \in 1..Len(ps) |->
        SummaryRow(ps[j].sheet_num, ps[j].rect, cs[ps[j].rect.rid + 1], kf)]

(* generate_layout_summary: the rows of every sheet, in order *)
generate_layout_summary(bins, cs, kf) == RowsOf(Placements(bins, 1), cs, kf)

Summary ==
    /\ pc = "summary"
    /\ rows' = generate_layout_summary(open_bins, cuts, kerf)
    /\ pc' = "done"
    /\ UNCHANGED <<foot, report, error, ui, text, lineNo, pieces, warnings, sheet_length,
                   sheet_width, kerf, cuts, bin_width, bin_height,
                   avail_rect, i, sorted_rect, k, open_bins, empty_bins>>

----------------------------------------------------------------------------
(* Inputs.  Lengths are in inches: whole numbers and eighths.               *)

(* the float of n inches, and of n eighths of an inch *)
Inch(n) == FloatOfInt(IntOfSmall(n))

Eighths(n) == RoundRatio(1, NatOf(n), <<8>>)

(* the float of the decimal literal n e x *)
Decimal(n, x) == DecimalFloat(1, NatOf(n), x)

Pieces ==
    { Piece(Inch(24), Inch(24), "None"),
      Piece(Inch(5), Inch(2), "None"),
      Piece(Inch(6), Inch(3), "L"),
      Piece(Inch(1), Inch(6), "L"),
      Piece(Inch(6), Inch(3), "W"),
      Piece(Inch(13), Inch(5), "None"),
      Piece(Inch(0), Inch(5), "None"),
      Piece(Eighths(33), Eighths(19), "None") }

(* <<sheet length, sheet width>> *)
Sheets == { <<Inch(48), Inch(48)>>, <<Inch(10), Inch(6)>>, <<Inch(12), Inch(0)>> }

Kerfs == { Inch(0), Eighths(1) }

CutLists == UNION { [1..n -> Pieces] : n \in 0..MaxCuts }

Idle ==
    /\ error = "none"
    /\ lineNo = 0
    /\ pieces = <<>>
    /\ warnings = 0
    /\ bin_width = 0
    /\ bin_height = 0
    /\ avail_rect = <<>>
    /\ i = 0
    /\ sorted_rect = <<>>
    /\ k = 0
    /\ open_bins = <<>>
    /\ empty_bins = 0
    /\ rows = <<>>
    /\ foot = <<>>
    /\ report = <<>>

(* run_layout_optimizer called with a list of cuts, followed by the summary *)
Init ==
    /\ pc = "start"
    /\ ui = NoUi
    /\ text = <<>>
    /\ cuts \in CutLists
    /\ \E s \in Sheets : sheet_length = s[1] /\ sheet_width = s[2]
    /\ kerf \in Kerfs
    /\ Idle

Next == AddBins \/ AddRect \/ Pack \/ PackRect \/ Summary

Spec == Init /\ [][Next]_vars

(* The form: the Optimize Layout button pressed with texts in the fields *)
SampleLines ==
    { Str(<<"2", "4", " ", "x", " ", "3", "6", " ", "L">>),
      Str(<<"1", "2", " ", "x", " ", "1", "2">>),
      Str(<<"2", "@", "3", "x", "4", " ", "W">>),
      Str(<<"1", "/", "0", " ", "x", " ", "5">>),
      Str(<<"1", " ", "2", " ", "3", " ", "x", " ", "4">>),
      Str(<<"1", " ", "1", "/", "2", " ", "X", " ", "3", "/", "4">>),
      Str(<<"0", " ", "x", " ", "5">>),
      Str(<<"1", "2", ".", "5", "x", "6", " ", "i", "n">>),
      Str(<<"1", "2", " ", "x">>),
      Str(<<"1", "2">>) \o <<9>> \o Str(<<"x">>) \o <<28>> \o Str(<<"5">>)
          \o <<160>> \o Str(<<"L">>),
      Str(<<"3", " ", "@", " ", "x", " ", "4">>),
      Str(<<" ">>) }

Texts == UNION { [1..n -> SampleLines] : n \in 0..MaxLines }

InitUI ==
    /\ pc = "ui"
    /\ ui \in [sheet_length : {Str(<<"9", "6">>), Str(<<"-", "5">>),
                               Str(<<"n", "a", "n">>)},
               sheet_width  : {Str(<<"4", "8">>)},
               kerf         : {Str(<<"1", "/", "8">>), Str(<<"0">>),
                               Str(<<"i", "n", "f">>)}]
    /\ text \in Texts
    /\ cuts = <<>>
    /\ sheet_length = Inch(0)
    /\ sheet_width = Inch(0)
    /\ kerf = Inch(0)
    /\ Idle

NextUI == ParseInputs \/ ParseLine \/ ParseDone \/ Next

SpecUI == InitUI /\ [][NextUI]_vars

(* Runs that ask for as many sheets as the packer was given, and more *)
InitLimit ==
    /\ pc = "start"
    /\ ui = NoUi
    /\ text = <<>>
    /\ \E n \in NumBins..(NumBins + LimitExtra) :
           cuts = [j \in 1..n |-> Piece(Inch(8), Inch(8), "None")]
    /\ sheet_length = Inch(10)
    /\ sheet_width = Inch(10)
    /\ kerf = Inch(0)
    /\ Idle

SpecLimit == InitLimit /\ [][Next]_vars

(* The way of one piece's size through the program: the loop of            *)
(* run_layout_optimizer adds the kerf and scales, and, the piece placed on *)
(* a sheet that holds it, generate_layout_summary scales back and takes    *)
(* the kerf off.  The packer keeps the two integers it is handed, or hands *)
(* them back exchanged; the properties cover both.                         *)
KerfScale ==
    /\ pc = "kerf"
    /\ IF FootprintRaises(cuts[1], kerf) # "none"
       THEN /\ pc' = "error"
            /\ error' = FootprintRaises(cuts[1], kerf)
            /\ UNCHANGED foot
       ELSE /\ foot' = Footprint(cuts[1], kerf)
            /\ pc' = "footprint"
            /\ UNCHANGED error
    /\ UNCHANGED <<report, ui, text, lineNo, pieces, warnings, sheet_length,
                   sheet_width, kerf, cuts, bin_width, bin_height,
                   avail_rect, i, sorted_rect, k, open_bins, empty_bins,
                   rows>>

KerfReport ==
    /\ pc = "footprint"
    /\ report' = <<Reported(foot[1], kerf), Reported(foot[2], kerf)>>
    /\ pc' = "reported"
    /\ UNCHANGED <<foot, error, ui, text, lineNo, pieces, warnings,
                   sheet_length, sheet_width, kerf, cuts, bin_width,
                   bin_height, avail_rect, i, sorted_rect, k, open_bins,
                   empty_bins, rows>>

(* sides of pieces: 5.3, 24, 8.345, 5.01, 3, 0.1, 4 1/8, 96 *)
KerfDims ==
    { Decimal(53, -1), Inch(24), Decimal(8345, -3), Decimal(501, -2),
      Inch(3), Decimal(1, -1), Eighths(33), Inch(96) }

(* kerfs: 0, 1/8, 1/32, 0.1, 0.03, 1e15 *)
KerfKerfs ==
    { Inch(0), Eighths(1), RoundRatio(1, <<1>>, <<32>>), Decimal(1, -1),
      Decimal(3, -2), Decimal(1, 15) }

(* a sheet of 1e16 by 1e16 holds every piece with every kerf *)
InitKerf ==
    /\ pc = "kerf"
    /\ ui = NoUi
    /\ text = <<>>
    /\ \E w \in KerfDims, l \in KerfDims : cuts = <<Piece(w, l, "None")>>
    /\ sheet_length = Decimal(1, 16)
    /\ sheet_width = Decimal(1, 16)
    /\ kerf \in KerfKerfs
    /\ Idle

NextKerf == KerfScale \/ KerfReport

SpecKerf == InitKerf /\ [][NextKerf]_vars

----------------------------------------------------------------------------
(* Shared notions of the properties *)

Finished == pc = "done"

(* the placements of every sheet, in sheet order *)
RECURSIVE AllRects(_)
AllRects(bins) ==
    IF bins = <<>> THEN <<>>
    ELSE Head(bins).rectangles \o AllRects(Tail(bins))

PlacedIds == {AllRects(open_bins)[j].rid : j \in 1..Len(AllRects(open_bins))}

(* the cut a placement was made for *)
CutOf(rect) == cuts[rect.rid + 1]

(* two footprints share area *)
Overlap(a, b) ==
    /\ a.x < b.x + b.width
    /\ b.x < a.x + a.width
    /\ a.y < b.y + b.height
    /\ b.y < a.y + a.height

(* What the run reports about pieces it did not place: the handler shows   *)
(* the sheet count, the drawing and the summary rows, all made from the    *)
(* placed rectangles; nothing is kept of a rectangle add_rect turned down. *)
UnplacedReported == {}

----------------------------------------------------------------------------
(* C1: on every sheet, no two distinct placements' footprints (kerf        *)
(* included) overlap in area.                                              *)
C1_NoOverlap ==
    \A b \in 1..Len(open_bins) :
        \A j, l \in 1..Len(open_bins[b].rectangles) :
            j # l => ~ Overlap(open_bins[b].rectangles[j],
                               open_bins[b].rectangles[l])

(* a finished run with three pieces side by side on one sheet *)
C1_Witness ==
    /\ Finished
    /\ \E b \in 1..Len(open_bins) : Len(open_bins[b].rectangles) >= 3

(* C2: every placement's footprint lies inside its sheet, in the scaled    *)
(* integer units: 0 <= x, x + width <= sheet width, 0 <= y,                *)
(* y + height <= sheet length.                                             *)
C2_Containment ==
    \A b \in 1..Len(open_bins) :
        \A j \in 1..Len(open_bins[b].rectangles) :
            LET r == open_bins[b].rectangles[j]
            IN  /\ 0 <= r.x
                /\ r.x + r.width <= bin_width
                /\ 0 <= r.y
                /\ r.y + r.height <= bin_height

(* a finished run with a placement away from the origin that reaches the   *)
(* far side of a sheet that is not square                                  *)
C2_Witness ==
    /\ Finished
    /\ bin_width # bin_height
    /\ \E b \in 1..Len(open_bins) :
           \E j \in 1..Len(open_bins[b].rectangles) :
               LET r == open_bins[b].rectangles[j]
               IN  r.y > 0 /\ r.x + r.width = bin_width

(* C3 (as claimed): when the run is finished every input piece id is       *)
(* either among the placements or in the reported unplaced list, never     *)
(* both, so that placed + unplaced = input pieces.                         *)
C3_Conservation ==
    Finished =>
        /\ \A id \in 0..(Len(cuts) - 1) :
               (id \in PlacedIds) # (id \in UnplacedReported)
        /\ Len(rows) + Cardinality(UnplacedReported) = Len(cuts)

(* C4 (as claimed): a placed piece with a grain lies in the orientation    *)
(* the grain forces: its longer footprint side along the sheet's length    *)
(* (the bin height) for L, along the sheet's width for W.                  *)
C4_GrainFidelity ==
    \A b \in 1..Len(open_bins) :
        \A j \in 1..Len(open_bins[b].rectangles) :
            LET r == open_bins[b].rectangles[j]
            IN  /\ CutOf(r).grain = "L" => r.height >= r.width
                /\ CutOf(r).grain = "W" => r.width >= r.height

(* C5 (as claimed): for every kerf >= 0 the reported width and height,     *)
(* the footprint side over 100 less the kerf, equal the piece's width and  *)
(* length within 0.01, as given or turned: adding the kerf, scaling to     *)
(* whole hundredths and taking the kerf off gives back the cut size.       *)
C5_KerfRoundTrip ==
    pc = "reported" =>
        \/ Near(report[1], cuts[1].width) /\ Near(report[2], cuts[1].length)
        \/ Near(report[2], cuts[1].width) /\ Near(report[1], cuts[1].length)

(* C6 (as claimed): never more sheets than the packer was given, and a     *)
(* piece left out once they are all in use is reported as unplaced.        *)
C6_SheetLimit ==
    /\ Len(open_bins) <= NumBins
    /\ Finished =>
           \A id \in 0..(Len(cuts) - 1) :
               id \notin PlacedIds => id \in UnplacedReported

(* C7 (as claimed): no line of the cut list makes parse_cut_list end in an *)
(* exception; a line that cannot be converted is skipped with a warning.   *)
C7_ParseNeverAborts ==
    [][pc = "parse" => pc' # "error"]_vars

(* the grain letter a line ends in after a blank, if any *)
TrailingGrain(line) ==
    LET s == Strip(line)
    IN  IF Len(s) >= 2 /\ s[Len(s)] \in {LetterL, LetterW}
              /\ IsWs(s[Len(s) - 1])
        THEN IF s[Len(s)] = LetterL THEN "L" ELSE "W"
        ELSE "None"

(* C8 (as claimed): the pieces parsed from a line carry the grain letter   *)
(* the line ends in, and no grain only when it ends in none.               *)
C8_GrainParsed ==
    (pc = "start" /\ Len(text) = 1) =>
        \A j \in 1..Len(cuts) : cuts[j].grain = TrailingGrain(text[1])

Positive(v) == FloatLess(Zero(1), v)

(* C9 (as claimed): no piece with a length or width <= 0 is placed, and a  *)
(* sheet with a side <= 0 gives no layout.                                 *)
C9_InvalidDimension ==
    /\ \A id \in PlacedIds :
           Positive(cuts[id + 1].length) /\ Positive(cuts[id + 1].width)
    /\ ~ (Positive(sheet_length) /\ Positive(sheet_width)) =>
           pc \notin {"summary", "done"}

ScenarioC ==
    /\ sheet_length = Inch(48)
    /\ sheet_width = Inch(48)
    /\ kerf = Eighths(1)
    /\ cuts = <<Piece(Inch(24), Inch(24), "None"), Piece(Inch(24), Inch(24), "None")>>

(* C10 (as claimed): in scenario C both pieces are placed on one sheet,    *)
(* without overlap, each reported 24 x 24 within the tolerance.            *)
C10_ScenarioC_OneSheet ==
    (Finished /\ ScenarioC) =>
        /\ Len(open_bins) = 1
        /\ Len(open_bins[1].rectangles) = 2
        /\ C1_NoOverlap
        /\ \A j \in 1..Len(rows) :
               Near(rows[j].Width, Inch(24)) /\ Near(rows[j].Height, Inch(24))

(* C10 (amended): in scenario C both pieces are placed, each alone at the  *)
(* origin of its own sheet with a footprint of 2412 x 2412 hundredths, and *)
(* each is reported 23.995 x 23.995, which is 24 x 24 within 0.01.         *)
C10_ScenarioC_TwoSheets ==
    (Finished /\ ScenarioC) =>
        /\ Len(open_bins) = 2
        /\ \A b \in 1..2 :
               open_bins[b].rectangles =
                   <<Placed(Rectangle(0, 0, 2412, 2412), b - 1)>>
        /\ Len(rows) = 2
        /\ \A j \in 1..Len(rows) :
               /\ rows[j].Sheet = j
               /\ rows[j].Width = Decimal(23995, -3)
               /\ rows[j].Height = Decimal(23995, -3)
               /\ Near(rows[j].Width, Inch(24))
               /\ Near(rows[j].Height, Inch(24))
               /\ ~ rows[j].Rotated

(* scenario C, finished *)
C10_Witness == Finished /\ ScenarioC /\ Len(rows) = 2

====
